---- MODULE Spec2Model ----
(***************************************************************************)
(* crtshadow.py: download certificate-transparency records from crt.sh,    *)
(* extract the hostnames, optionally filter and trim them, print them.     *)
(*                                                                         *)
(* A string is a sequence of one-character strings.  The alphabet holds a  *)
(* wildcard star, a dot, a lowercase letter, an uppercase letter and a     *)
(* whitespace character; "b" only arises by lowercasing "B".               *)
(***************************************************************************)
EXTENDS Naturals, Integers, Sequences, FiniteSets

VARIABLES
  domain,      \* main: args.domain.lower().strip()
  same,        \* main: args.same
  trim,        \* main: args.trim
  output,      \* main: TRUE iff --output FILE was given
  pc,          \* position of main
  https,       \* fetch: the https parameter of the running invocation
  seqs,        \* history: scheme of every request sequence (sess.get) started
  total,       \* urllib3 Retry.total still left in the running sequence
  attempts,    \* history: GET attempts sent in the running sequence
  last,        \* outcome of the latest GET attempt of the running sequence
  finals,      \* history: status that ended each request sequence, 0 for none
  resp,        \* fetch: resp.status_code, 0 before sess.get has returned
  data,        \* main: the record list fetch returned
  prev,        \* history: value of names before the latest step
  names,       \* main: names
  out,         \* main: out = sorted(names)
  stdout,      \* text printed by print("\n".join(out))
  reported,    \* n of the message "Wrote n lines to FILE", -1 when not printed
  fileOpened,  \* TRUE once open(args.output, "w") succeeded
  fileText,    \* text written to the destination file
  trace,       \* history: the pipeline steps begun, in order
  err          \* the exception that ended the run, "none" otherwise

vars == <<domain, same, trim, output, pc, https, seqs, total, attempts, last,
          finals, resp, data, prev, names, out, stdout, reported, fileOpened,
          fileText, trace, err>>

(***************************************************************************)
(* Bounds.                                                                 *)
(***************************************************************************)
\* characters (common_name plus name_value) of the one-record lists the
\* parsing steps are checked on
MaxChars == 4
\* characters of a whole response body, and of a two-record list
MaxBodyChars == 2

(***************************************************************************)
(* Strings.                                                                *)
(***************************************************************************)
Chars == {"*", ".", "a", "B", " "}

StrOf(k) == [1..k -> Chars]

StrUpTo(n) == UNION {StrOf(k) : k \in 0..n}

\* code point of a character (sorted() compares code points)
Ord(c) ==
  CASE c = "\n" -> 10
    [] c = " " -> 32
    [] c = "*" -> 42
    [] c = "." -> 46
    [] c = "B" -> 66
    [] c = "a" -> 97
    [] c = "b" -> 98

\* str.lower() on one character
LowerChar(c) == IF c = "B" THEN "b" ELSE c

\* str.lower()
Lower(s) == [i \in 1..Len(s) |-> LowerChar(s[i])]

IsSpace(c) == c = " "

RECURSIVE LStrip(_)
LStrip(s) == IF s # <<>> /\ IsSpace(Head(s)) THEN LStrip(Tail(s)) ELSE s

RECURSIVE RStrip(_)
RStrip(s) ==
  IF s # <<>> /\ IsSpace(s[Len(s)]) THEN RStrip(SubSeq(s, 1, Len(s) - 1)) ELSE s

\* str.strip()
Strip(s) == RStrip(LStrip(s))

\* str.startswith(p)
StartsWith(s, p) == Len(s) >= Len(p) /\ SubSeq(s, 1, Len(p)) = p

\* str.endswith(p)
EndsWith(s, p) ==
  Len(s) >= Len(p) /\ SubSeq(s, Len(s) - Len(p) + 1, Len(s)) = p

\* the first whitespace-free run of s (s starts with a non-space character)
RECURSIVE Token(_)
Token(s) ==
  IF s = <<>> \/ IsSpace(Head(s)) THEN <<>> ELSE <<Head(s)>> \o Token(Tail(s))

\* str.split(): the whitespace-separated parts of s, none of them empty
RECURSIVE Split(_)
Split(s) ==
  LET t == LStrip(s)
  IN IF t = <<>> THEN <<>>
     ELSE <<Token(t)>> \o Split(SubSeq(t, Len(Token(t)) + 1, Len(t)))

Range(f) == {f[i] : i \in DOMAIN f}

(***************************************************************************)
(* Parsing helpers.                                                        *)
(***************************************************************************)
\* _clean, the body of its loop: the cleaned host, <<>> when h is discarded
CleanOne(h) ==
  LET t == Strip(h)
      u == IF StartsWith(t, <<"*", ".">>) THEN SubSeq(t, 3, Len(t)) ELSE t
  IN IF u # <<>> THEN Lower(u) ELSE <<>>

\* _clean
Clean(hosts) == {CleanOne(h) : h \in {g \in hosts : CleanOne(g) # <<>>}}

\* extract, the body of its loop: the raw names one record contributes
RecordNames(cert) ==
  (IF cert.common_name # <<>> THEN {cert.common_name} ELSE {})
  \cup {part \in Range(Split(cert.name_value)) : part # <<>>}

\* extract
ExtractNames(entries) ==
  Clean(UNION {RecordNames(entries[i]) : i \in DOMAIN entries})

(***************************************************************************)
(* The steps of main on the name set.                                      *)
(***************************************************************************)
Suffix(d) == <<".">> \o d

\* main, --same: a mutation that forgets the separating dot
SameDomainNoDot(ns, d) == {n \in ns : n = d \/ EndsWith(n, d)}

\* main, --same
SameDomain(ns, d) == {n \in ns : n = d \/ EndsWith(n, Suffix(d))}

\* n[: -len(suffix)]
DropLast(n, k) == SubSeq(n, 1, IF Len(n) > k THEN Len(n) - k ELSE 0)

\* main, --trim: the name added to stripped for a name n that is kept
TrimOne(n, d) ==
  IF EndsWith(n, Suffix(d)) THEN DropLast(n, Len(Suffix(d))) ELSE n

\* main, --trim: a mutation that cuts the domain and leaves the dot
TrimNamesKeepDot(ns, d) ==
  {(IF EndsWith(n, Suffix(d)) THEN DropLast(n, Len(d)) ELSE n) :
     n \in {m \in ns : m # d}}

\* main, --trim: a mutation that forgets to skip the domain itself
TrimNamesNoSkip(ns, d) == {TrimOne(n, d) : n \in ns}

\* main, --trim
TrimNames(ns, d) == {TrimOne(n, d) : n \in {m \in ns : m # d}}

\* s < t in the order of sorted(): lexicographic by code point
RECURSIVE Less(_, _)
Less(s, t) ==
  IF t = <<>> THEN FALSE
  ELSE IF s = <<>> THEN TRUE
  ELSE IF Head(s) # Head(t) THEN Ord(Head(s)) < Ord(Head(t))
  ELSE Less(Tail(s), Tail(t))

\* sorted(names)
RECURSIVE Sorted(_)
Sorted(ns) ==
  IF ns = {} THEN <<>>
  ELSE LET m == CHOOSE x \in ns : \A y \in ns \ {x} : Less(x, y)
       IN <<m>> \o Sorted(ns \ {m})

\* "\n".join(lines)
RECURSIVE Join(_)
Join(lines) ==
  IF lines = <<>> THEN <<>>
  ELSE IF Len(lines) = 1 THEN Head(lines)
  ELSE Head(lines) \o <<"\n">> \o Join(Tail(lines))

(***************************************************************************)
(* The network: what one GET attempt can meet.                             *)
(***************************************************************************)
\* Retry(total=5)
RetryTotal == 5

\* Retry(status_forcelist=[429, 500, 502, 503, 504])
StatusForcelist == {429, 500, 502, 503, 504}

\* urllib3's Retry.RETRY_AFTER_STATUS_CODES (respect_retry_after_header is
\* left at its default, True)
RetryAfterStatusCodes == {413, 429, 503}

\* the statuses the server answers with in the model
Statuses == {200, 300, 404, 413} \cup StatusForcelist

\* the certificate records of exactly t characters; a field the record
\* lacks reads as the empty string (cert.get(key, ""))
Records(t) ==
  UNION {{[common_name |-> c, name_value |-> v] : c \in StrOf(k), v \in StrOf(t - k)} :
           k \in 0..t}

\* the lists of one record of at most n characters
OneRecord(n) == UNION {{<<r>> : r \in Records(t)} : t \in 0..n}

\* the lists of two records of at most n characters together
TwoRecords(n) ==
  UNION {{<<r, q>> : r \in Records(t), q \in UNION {Records(u) : u \in 0..(n - t)}} :
           t \in 0..n}

NotJson == [json |-> FALSE, value |-> <<>>]

\* the bodies a response can carry: a JSON record list, or no JSON at all
Bodies ==
  {[json |-> TRUE, value |-> e] :
     e \in {<<>>} \cup OneRecord(MaxBodyChars) \cup TwoRecords(MaxBodyChars)}
  \cup {NotJson}

NoOutcome == [kind |-> "none", status |-> 0, retryAfter |-> FALSE]

\* a connection or read failure: the attempt got no response
TransportError == [kind |-> "error", status |-> 0, retryAfter |-> FALSE]

\* what one GET attempt can end with
Outcomes ==
  {TransportError}
  \cup {[kind |-> "response", status |-> st, retryAfter |-> ra] :
          st \in Statuses, ra \in BOOLEAN}

\* Retry.is_retry for a GET: a mutation that retries every error status
IsRetryAnyError(status, retryAfter, left) == status >= 400

\* Retry.is_retry for a GET (GET is in allowed_methods)
IsRetry(status, retryAfter, left) ==
  \/ status \in StatusForcelist
  \/ left # 0 /\ retryAfter /\ status \in RetryAfterStatusCodes

\* Retry.increment then Retry.is_exhausted: total - 1 is below zero
IsExhausted(left) == left - 1 < 0

\* Response.raise_for_status: a mutation that raises for server errors only
RaisesForStatusServerOnly(status) == 500 <= status /\ status < 600

\* Response.raise_for_status raises for 4xx and 5xx
RaisesForStatus(status) == 400 <= status /\ status < 600

\* the arguments given for the positional domain
DomainArgs == {<<"B">>, <<" ", "a", ".", "B">>}

(***************************************************************************)
(* The run of main.                                                        *)
(***************************************************************************)
Fail(e) == pc' = "failed" /\ err' = e

\* main after parse_args, line 121
Init ==
  /\ domain \in {Strip(Lower(a)) : a \in DomainArgs}
  /\ same \in BOOLEAN
  /\ trim \in BOOLEAN
  /\ output \in BOOLEAN
  /\ pc = "fetch"
  /\ https = TRUE
  /\ seqs = <<>>
  /\ total = RetryTotal
  /\ attempts = 0
  /\ last = NoOutcome
  /\ finals = <<>>
  /\ resp = 0
  /\ data = <<>>
  /\ prev = {}
  /\ names = {}
  /\ out = <<>>
  /\ stdout = <<>>
  /\ reported = -1
  /\ fileOpened = FALSE
  /\ fileText = <<>>
  /\ trace = <<>>
  /\ err = "none"

\* fetch, lines 49-63: build the session and start sess.get
Fetch ==
  /\ pc = "fetch"
  /\ seqs' = Append(seqs, IF https THEN "https" ELSE "http")
  /\ total' = RetryTotal
  /\ attempts' = 0
  /\ last' = NoOutcome
  /\ trace' = IF seqs = <<>> THEN Append(trace, "fetch") ELSE trace
  /\ pc' = "get"
  /\ UNCHANGED <<domain, same, trim, output, https, finals, resp, data, prev,
                 names, out, stdout, reported, fileOpened, fileText, err>>

\* sess.get, one GET attempt of urlopen under the mounted Retry: the attempt
\* is retried, or the retries are exhausted and sess.get raises (Retry's
\* raise_on_status is left at its default, True), or sess.get returns the
\* response
Attempt ==
  /\ pc = "get"
  /\ \E o \in Outcomes :
       /\ attempts' = attempts + 1
       /\ last' = o
       /\ IF o.kind = "error"
          THEN IF IsExhausted(total)
               THEN /\ Fail("ConnectionError")
                    /\ finals' = Append(finals, 0)
                    /\ UNCHANGED <<total, resp>>
               ELSE /\ total' = total - 1
                    /\ UNCHANGED <<pc, err, finals, resp>>
          ELSE IF IsRetry(o.status, o.retryAfter, total)
          THEN IF IsExhausted(total)
               THEN /\ Fail("RetryError")
                    /\ finals' = Append(finals, o.status)
                    /\ UNCHANGED <<total, resp>>
               ELSE /\ total' = total - 1
                    /\ UNCHANGED <<pc, err, finals, resp>>
          ELSE /\ resp' = o.status
               /\ finals' = Append(finals, o.status)
               /\ pc' = "got"
               /\ UNCHANGED <<total, err>>
  /\ UNCHANGED <<domain, same, trim, output, https, seqs, data, prev, names,
                 out, stdout, reported, fileOpened, fileText, trace>>

\* fetch, lines 66-72: the fallback, raise_for_status, resp.json(); the
\* body of the response is drawn where it is read, and the locals of
\* sess.get are gone once fetch has returned
Respond ==
  /\ pc = "got"
  /\ IF resp = 503 /\ https
     THEN /\ https' = FALSE
          /\ pc' = "fetch"
          /\ UNCHANGED <<data, err, total, attempts, last>>
     ELSE IF RaisesForStatus(resp)
     THEN Fail("HTTPError") /\ UNCHANGED <<https, data, total, attempts, last>>
     ELSE \E b \in Bodies :
            IF ~b.json
            THEN Fail("JSONDecodeError")
                 /\ UNCHANGED <<https, data, total, attempts, last>>
            ELSE /\ data' = b.value
                 /\ pc' = "extract"
                 /\ total' = RetryTotal
                 /\ attempts' = 0
                 /\ last' = NoOutcome
                 /\ UNCHANGED <<https, err>>
  /\ UNCHANGED <<domain, same, trim, output, seqs, finals, resp, prev, names,
                 out, stdout, reported, fileOpened, fileText, trace>>

\* main, line 127
Extract ==
  /\ pc = "extract"
  /\ prev' = names
  /\ names' = ExtractNames(data)
  /\ trace' = Append(trace, "extract")
  /\ pc' = "filter"
  /\ UNCHANGED <<domain, same, trim, output, https, seqs, total, attempts, last,
                 finals, resp, data, out, stdout, reported, fileOpened,
                 fileText, err>>

\* main, lines 129-131
Filter ==
  /\ pc = "filter"
  /\ prev' = names
  /\ names' = IF same THEN SameDomain(names, domain) ELSE names
  /\ trace' = Append(trace, "filter")
  /\ pc' = "trim"
  /\ UNCHANGED <<domain, same, trim, output, https, seqs, total, attempts, last,
                 finals, resp, data, out, stdout, reported, fileOpened,
                 fileText, err>>

\* main, lines 133-142
Trim ==
  /\ pc = "trim"
  /\ prev' = names
  /\ names' = IF trim THEN TrimNames(names, domain) ELSE names
  /\ trace' = Append(trace, "trim")
  /\ pc' = "sort"
  /\ UNCHANGED <<domain, same, trim, output, https, seqs, total, attempts, last,
                 finals, resp, data, out, stdout, reported, fileOpened,
                 fileText, err>>

\* main, line 144
Sort ==
  /\ pc = "sort"
  /\ out' = Sorted(names)
  /\ trace' = Append(trace, "sort")
  /\ pc' = "write"
  /\ UNCHANGED <<domain, same, trim, output, https, seqs, total, attempts, last,
                 finals, resp, data, prev, names, stdout, reported, fileOpened,
                 fileText, err>>

\* main, lines 146-151: a mutation that writes the file before sorting
WriteBeforeSort ==
  /\ pc = "sort"
  /\ trace' = Append(trace, "write")
  /\ fileOpened' = TRUE
  /\ fileText' = Join(out) \o <<"\n">>
  /\ reported' = Len(out)
  /\ pc' = "done"
  /\ UNCHANGED <<domain, same, trim, output, https, seqs, total, attempts, last,
                 finals, resp, data, prev, names, out, stdout, err>>

\* main, lines 146-151: open(args.output, "w") can raise; print appends "\n"
Write ==
  /\ pc = "write"
  /\ trace' = Append(trace, "write")
  /\ IF output
     THEN \E opens \in BOOLEAN :
            IF opens
            THEN /\ fileOpened' = TRUE
                 /\ fileText' = Join(out) \o <<"\n">>
                 /\ reported' = Len(out)
                 /\ pc' = "done"
                 /\ UNCHANGED <<stdout, err>>
            ELSE Fail("OSError")
                 /\ UNCHANGED <<stdout, reported, fileOpened, fileText>>
     ELSE /\ stdout' = Join(out) \o <<"\n">>
          /\ pc' = "done"
          /\ UNCHANGED <<reported, fileOpened, fileText, err>>
  /\ UNCHANGED <<domain, same, trim, output, https, seqs, total, attempts, last,
                 finals, resp, data, prev, names, out>>

Next ==
  \/ Fetch
  \/ Attempt
  \/ Respond
  \/ Extract
  \/ Filter
  \/ Trim
  \/ Sort
  \/ Write

Spec == Init /\ [][Next]_vars

(***************************************************************************)
(* The parsing steps alone, main from line 127 to line 142, on every       *)
(* record list within the bounds, after a fetch that returned at once.     *)
(***************************************************************************)
InitNames ==
  /\ domain \in {Strip(Lower(a)) : a \in DomainArgs}
  /\ same \in BOOLEAN
  /\ trim \in BOOLEAN
  /\ output = FALSE
  /\ pc = "extract"
  /\ https = TRUE
  /\ seqs = <<"https">>
  /\ total = RetryTotal
  /\ attempts = 0
  /\ last = NoOutcome
  /\ finals = <<200>>
  /\ resp = 200
  /\ data \in {<<>>} \cup OneRecord(MaxChars) \cup TwoRecords(MaxBodyChars)
  /\ prev = {}
  /\ names = {}
  /\ out = <<>>
  /\ stdout = <<>>
  /\ reported = -1
  /\ fileOpened = FALSE
  /\ fileText = <<>>
  /\ trace = <<"fetch">>
  /\ err = "none"

NextNames ==
  \/ Extract
  \/ Filter
  \/ Trim

SpecNames == InitNames /\ [][NextNames]_vars

(***************************************************************************)
(* Properties.                                                             *)
(***************************************************************************)
InFetch == pc \in {"fetch", "get", "got"}

\* fetch has returned a record list to main
Returned ==
  \/ pc \in {"extract", "filter", "trim", "sort", "write", "done"}
  \/ pc = "failed" /\ err = "OSError"

\* n is p + "." + domain for some prefix p
DotSuffixed(n) == \E k \in 0..Len(n) : n = SubSeq(n, 1, k) \o <<".">> \o domain

\* the newline-terminated lines of a text
Lines(text) == Cardinality({i \in DOMAIN text : text[i] = "\n"})

\* what the run wrote to its destination
Produced == IF output THEN fileText ELSE stdout

Steps == <<"fetch", "extract", "filter", "trim", "sort", "write">>

\* C1: once fetch is over, an HTTPS request sequence whose final response
\* had status 503 has been followed by exactly one HTTP request sequence,
\* and no run holds more than two sequences, the second one only after
\* such a 503.
C1_FallbackOn503 ==
  ~InFetch =>
    /\ Len(seqs) <= 2
    /\ seqs[1] = "https"
    /\ finals[1] = 503 => seqs = <<"https", "http">>
    /\ Len(seqs) = 2 => finals[1] = 503

\* C2, as claimed: a request sequence sends at most 5 GET attempts in
\* total.
C2_AtMostFiveAttempts == attempts <= 5

\* C2, amended: a request sequence sends at most 6 GET attempts (the first
\* and 5 retries), and it goes on to another attempt only after an attempt
\* that got no response, a response whose status is in the forcelist, or a
\* 413 response that carries Retry-After; any other response ends it.
C2_AtMostSixAttempts ==
  /\ attempts <= RetryTotal + 1
  /\ (pc = "get" /\ attempts >= 1) =>
       \/ last.kind = "error"
       \/ last.status \in StatusForcelist
       \/ last.status = 413 /\ last.retryAfter
  /\ pc = "got" => last.kind = "response" /\ last.status \notin StatusForcelist

\* a sixth attempt was sent and sess.get returned its response
C2_Witness == pc = "got" /\ attempts = RetryTotal + 1

C4_Normalized ==
  pc = "filter" =>
    \A n \in names : ~StartsWith(n, <<"*", ".">>) /\ n = Lower(n) /\ n # <<>>

\* C5: with --same the filtered set holds exactly the names of the input
\* that equal the domain or are a prefix followed by "." and the domain.
C5_SameDomain ==
  (pc = "trim" /\ same) =>
    /\ names \subseteq prev
    /\ \A n \in prev : n \in names <=> (n = domain \/ DotSuffixed(n))

\* the filter removed a name that ends with the domain text without the
\* dot, and kept a subdomain
C5_Witness ==
  /\ pc = "trim"
  /\ same
  /\ \E n \in prev \ names : EndsWith(n, domain)
  /\ \E n \in names : n # domain

\* C6: with --trim the trimmed set is the image of the input: the domain is
\* dropped, prefix + "." + domain becomes the prefix, any other name stays.
C6_TrimImage ==
  (pc = "sort" /\ trim) =>
    /\ \A n \in prev \ {domain} :
         IF DotSuffixed(n)
         THEN \E x \in names : n = x \o <<".">> \o domain
         ELSE n \in names
    /\ \A x \in names :
         \E n \in prev \ {domain} :
           \/ n = x \o <<".">> \o domain
           \/ n = x /\ ~DotSuffixed(n)

\* the trim dropped the domain and rewrote a subdomain to its prefix
C6_Witness ==
  /\ pc = "sort"
  /\ trim
  /\ domain \in prev
  /\ \E n \in prev : DotSuffixed(n) /\ Len(n) > Len(domain) + 1

\* C7, as claimed: trimming changes the number of entries only by the drop
\* of the domain itself.
C7_CardinalityKept ==
  (pc = "sort" /\ trim) =>
    Cardinality(names) = Cardinality(prev) - (IF domain \in prev THEN 1 ELSE 0)

\* C7, amended: the trimmed set has one entry for every input name other
\* than the domain, less one for every input name n that does not end with
\* "." + domain while n + "." + domain is in the input too; after --same no
\* such name is left.
C7_CardinalityLessCollisions ==
  (pc = "sort" /\ trim) =>
    /\ Cardinality(names) =
         Cardinality(prev \ {domain})
         - Cardinality({n \in prev \ {domain} :
                          ~DotSuffixed(n) /\ (n \o <<".">> \o domain) \in prev})
    /\ same =>
         Cardinality(names) = Cardinality(prev) - (IF domain \in prev THEN 1 ELSE 0)

\* two input names were trimmed to one entry
C7_Witness ==
  pc = "sort" /\ trim /\ Cardinality(names) < Cardinality(prev \ {domain})

\* C8: a run that ends with an empty name set has produced zero lines.
C8_EmptyOutputHasNoLines ==
  (pc = "done" /\ names = {}) => Lines(Produced) = 0

\* C9: the steps run in the order fetch, extract, filter, trim, sort,
\* write; the file is opened only once the sorted result is computed; a run
\* that fails before the write step leaves the file unopened and has
\* written nothing.
C9_WriteComesLast ==
  /\ trace = SubSeq(Steps, 1, Len(trace))
  /\ fileOpened => (trace = Steps /\ out = Sorted(names))
  /\ (fileText # <<>> \/ stdout # <<>> \/ reported # -1) => trace = Steps
  /\ (pc = "failed" /\ err # "OSError") =>
       (trace # Steps /\ ~fileOpened /\ fileText = <<>> /\ stdout = <<>>)

\* the file was written with at least one name
C9_Witness == pc = "done" /\ fileOpened /\ out # <<>>

\* C10: with --trim the trimmed set never holds the empty string.
C10_NoEmptyEntry == (pc = "sort" /\ trim) => <<>> \notin names

====
